---- MODULE Spec2Model ----
(***************************************************************************)
(* Wildcard matching over an immutable radix tree (wildcard.go).           *)
(*                                                                         *)
(* A byte string is a sequence of one-character strings.  A node of the    *)
(* tree is named by the concatenation of the edge labels on the way from   *)
(* the root to it; the tree is the set of its nodes and the set of nodes   *)
(* that carry a leaf.  The matcher is the pure function of wildcard.go,    *)
(* computed branch by branch; besides the boolean it reports the return    *)
(* statement it left through and the remainder handed to every call.       *)
(***************************************************************************)
EXTENDS Integers, Sequences, FiniteSets

\* Longest stored pattern and longest queried key.
MaxLen == 3

\* Total number of bytes of the patterns stored in one tree.
MaxBytes == 5

\* The bytes that occur: a segment character, the separator, the wildcard.
Bytes == {"a", ".", "*"}

Strings == UNION {[1..n -> Bytes] : n \in 0..MaxLen}

VARIABLES root, pc, key, out

vars == <<root, pc, key, out>>

----------------------------------------------------------------------------
(* The radix tree the matcher reads.                                       *)

\* No node: what getEdge yields when there is no edge for the byte.
nil == <<"nil">>

\* bytes.HasPrefix(s, p)
HasPrefix(s, p) == Len(p) <= Len(s) /\ SubSeq(s, 1, Len(p)) = p

EmptyTree == [nodes |-> {<< >>}, leaves |-> {}]

\* The longest prefix of k that lies on a path of the tree.
longestPrefix(t, k) ==
  LET onPath == {i \in 0..Len(k) : \E m \in t.nodes : HasPrefix(m, SubSeq(k, 1, i))}
  IN  SubSeq(k, 1, CHOOSE i \in onPath : \A j \in onPath : j <= i)

\* Insertion: the key gets a leaf node; where it leaves the existing paths
\* inside an edge, the edge is split by a new node at that point.
insert(t, k) ==
  [nodes |-> t.nodes \cup {longestPrefix(t, k), k}, leaves |-> t.leaves \cup {k}]

\* n.isLeaf()
isLeaf(t, n) == n \in t.leaves

\* n.Get(k) on the root: exact lookup of a whole key.
Get(t, k) == k \in t.leaves

\* n.getEdge(label): the child whose edge label starts with the byte, or nil.
getEdge(t, n, label) ==
  LET below == {m \in t.nodes : Len(m) > Len(n) /\ HasPrefix(m, n) /\ m[Len(n) + 1] = label}
  IN  IF below = {} THEN nil
      ELSE CHOOSE m \in below : \A o \in below : Len(m) <= Len(o)

\* next.prefix: the label of the edge from n to its child next.
prefix(n, next) == SubSeq(next, Len(n) + 1, Len(next))

----------------------------------------------------------------------------
(* Three-valued conditions: an index or slice out of range panics.         *)

True == "true"
False == "false"
Panic == "panic"

Bool(b) == IF b THEN True ELSE False

\* a && b, left to right
AndThen(a, b) == IF a = True THEN b ELSE a

\* a || b, left to right
OrElse(a, b) == IF a = False THEN b ELSE a

\* s[i] == c, with Go's zero-based index and its range check
ByteIs(s, i, c) == IF 0 <= i /\ i < Len(s) THEN Bool(s[i + 1] = c) ELSE Panic

\* s[i:], or nil when i is out of range
SliceFrom(s, i) == IF 0 <= i /\ i <= Len(s) THEN SubSeq(s, i + 1, Len(s)) ELSE nil

\* s[:i], or nil when i is out of range
SliceTo(s, i) == IF 0 <= i /\ i <= Len(s) THEN SubSeq(s, 1, i) ELSE nil

----------------------------------------------------------------------------
(* The matcher.                                                            *)

\* What one call reports: the boolean, the return statement taken, the
\* length of the remainder given to each call of matchWithWildcardsFrom in
\* turn, and the remainder and edge label in hand at the return.
Ret(result, via, lens, search, label) ==
  [result |-> result, via |-> via, lens |-> lens, search |-> search, label |-> label]

\* A wildcard '*' edge whose child is a leaf.
hasWildcardEdge(t, n) ==
  LET wildcardNode == getEdge(t, n, "*")
  IN  wildcardNode /= nil /\ isLeaf(t, wildcardNode)

\* As isWildcardPattern, without the length check before the two reads.
isWildcardPatternNoLenCheck(label, leaf) ==
  AndThen(ByteIs(label, Len(label) - 2, "."),
    AndThen(ByteIs(label, Len(label) - 1, "*"), Bool(leaf)))

\* The edge label ends with ".*" and its node is a leaf.
isWildcardPattern(label, leaf) ==
  AndThen(Bool(Len(label) >= 2),
    AndThen(ByteIs(label, Len(label) - 2, "."),
      AndThen(ByteIs(label, Len(label) - 1, "*"), Bool(leaf))))

\* As atBoundary, accepting only a remainder that ends with the prefix.
atBoundaryEndOnly(search, wildcardPrefix) ==
  Bool(Len(search) = Len(wildcardPrefix))

\* As atBoundary, accepting any byte after the prefix.
atBoundaryAnyByte(search, wildcardPrefix) ==
  OrElse(Bool(Len(search) = Len(wildcardPrefix)),
    Bool(Len(search) > Len(wildcardPrefix)))

\* After the wildcard prefix the remainder ends or goes on with a dot.
atBoundary(search, wildcardPrefix) ==
  OrElse(Bool(Len(search) = Len(wildcardPrefix)),
    AndThen(Bool(Len(search) > Len(wildcardPrefix)),
      ByteIs(search, Len(wildcardPrefix), ".")))

\* The wildcard-pattern check on the edge found for the remainder.
matchesWildcardPattern(search, label, leaf) ==
  LET isPattern == isWildcardPattern(label, leaf)
      wildcardPrefix == SliceTo(label, Len(label) - 2)
  IN  IF isPattern /= True THEN isPattern
      ELSE IF wildcardPrefix = nil THEN Panic
      ELSE IF HasPrefix(search, wildcardPrefix) THEN atBoundary(search, wildcardPrefix)
      ELSE False

\* As traversal, asking first whether the label starts with the remainder.
traversalShortFirst(search, label) ==
  IF HasPrefix(label, search) THEN "short"
  ELSE IF HasPrefix(search, label) THEN "consume"
  ELSE "mismatch"

\* How the remainder and the edge label relate, in the order the code asks.
traversal(search, label) ==
  IF HasPrefix(search, label) THEN "consume"
  ELSE IF HasPrefix(label, search) THEN "short"
  ELSE "mismatch"

\* As consume, dropping one byte more than the edge label.
consumeOneMore(search, label) == SliceFrom(search, Len(label) + 1)

\* The remainder after the edge label.
consume(search, label) == SliceFrom(search, Len(label))

\* The remainder is used up inside the edge: a match only on equal lengths.
shortMatch(search, label, leaf) == leaf /\ Len(search) = Len(label)

RECURSIVE matchWithWildcardsFrom(_, _, _, _)

matchWithWildcardsFrom(t, n, search, lens) ==
  LET seen == Append(lens, Len(search))
  IN  IF Len(search) = 0 THEN Ret(isLeaf(t, n), "base", seen, search, << >>)
      ELSE IF hasWildcardEdge(t, n) THEN Ret(TRUE, "star", seen, search, << >>)
      ELSE
        LET next == getEdge(t, n, search[1])
        IN  IF next = nil THEN Ret(FALSE, "noedge", seen, search, << >>)
            ELSE
              LET label == prefix(n, next)
                  wild == matchesWildcardPattern(search, label, isLeaf(t, next))
                  way == traversal(search, label)
                  rest == consume(search, label)
              IN  IF wild = Panic THEN Ret(FALSE, "panic", seen, search, label)
                  ELSE IF wild = True THEN Ret(TRUE, "wildcard", seen, search, label)
                  ELSE IF way = "consume" THEN
                    IF rest = nil THEN Ret(FALSE, "panic", seen, search, label)
                    ELSE matchWithWildcardsFrom(t, next, rest, seen)
                  ELSE IF way = "short" THEN
                    Ret(shortMatch(search, label, isLeaf(t, next)), "short", seen, search, label)
                  ELSE Ret(FALSE, "mismatch", seen, search, label)

\* As MatchWithWildcards, without the lookup of "*" before the descent.
MatchWithWildcardsNoUniversal(t, k) ==
  IF Len(k) = 0 THEN Ret(Get(t, k), "empty", << >>, k, << >>)
  ELSE matchWithWildcardsFrom(t, << >>, k, << >>)

\* As MatchWithWildcards, without the separate case of the empty key.
MatchWithWildcardsNoEmptyCase(t, k) ==
  IF Get(t, <<"*">>) THEN Ret(TRUE, "universal", << >>, k, << >>)
  ELSE matchWithWildcardsFrom(t, << >>, k, << >>)

MatchWithWildcards(t, k) ==
  IF Len(k) = 0 THEN Ret(Get(t, k), "empty", << >>, k, << >>)
  ELSE IF Get(t, <<"*">>) THEN Ret(TRUE, "universal", << >>, k, << >>)
  ELSE matchWithWildcardsFrom(t, << >>, k, << >>)

----------------------------------------------------------------------------
(* The program: patterns are inserted into the tree, keys are matched.     *)

NoOut == Ret(FALSE, "none", << >>, << >>, << >>)

\* Bytes of the patterns stored in the tree.
RECURSIVE totalBytes(_)
totalBytes(S) ==
  IF S = {} THEN 0
  ELSE LET k == CHOOSE x \in S : TRUE IN Len(k) + totalBytes(S \ {k})

Init ==
  /\ root = EmptyTree
  /\ pc = "idle"
  /\ key = << >>
  /\ out = NoOut

Insert(k) ==
  /\ pc = "idle"
  /\ k \notin root.leaves
  /\ totalBytes(root.leaves) + Len(k) <= MaxBytes
  /\ root' = insert(root, k)
  /\ UNCHANGED <<pc, key, out>>

Match(k) ==
  /\ pc = "idle"
  /\ key' = k
  /\ out' = MatchWithWildcards(root, k)
  /\ pc' = "done"
  /\ UNCHANGED root

Return ==
  /\ pc = "done"
  /\ pc' = "idle"
  /\ key' = << >>
  /\ out' = NoOut
  /\ UNCHANGED root

Next ==
  \/ \E k \in Strings : Insert(k)
  \/ \E k \in Strings : Match(k)
  \/ Return

Spec == Init /\ [][Next]_vars

----------------------------------------------------------------------------
(* What the claims speak of.                                               *)

Stored == root.leaves

Done == pc = "done"

Star == <<"*">>

EndsDotStar(q) == Len(q) >= 2 /\ q[Len(q) - 1] = "." /\ q[Len(q)] = "*"

\* p of a pattern p + ".*"
Stem(q) == SubSeq(q, 1, Len(q) - 2)

\* p + ".*" with p non-empty and not ending in '.'
SegmentPattern(q) == EndsDotStar(q) /\ Len(q) >= 3 /\ q[Len(q) - 2] /= "."

\* k = p + "." + r with r non-empty
Deeper(q, k) == HasPrefix(k, Stem(q) \o <<".">>) /\ Len(k) > Len(Stem(q)) + 1

\* k == p or k starts with p + "."
Covers(q, k) == k = Stem(q) \/ HasPrefix(k, Stem(q) \o <<".">>)

\* '*' only as the whole pattern or as the last byte of a trailing ".*"
\* after a non-empty prefix
WellFormed(q) ==
  \/ \A i \in 1..Len(q) : q[i] /= "*"
  \/ q = Star
  \/ Len(q) >= 3 /\ EndsDotStar(q) /\ \A i \in 1..(Len(q) - 1) : q[i] /= "*"

StrictlyDecreasing(s) == \A i \in 1..(Len(s) - 1) : s[i + 1] < s[i]

\* The node the last call stood at: the key without the remainder.
AtNode == SubSeq(key, 1, Len(key) - Len(out.search))

----------------------------------------------------------------------------
\* C1: when p + ".*" is stored (p non-empty, not ending in '.') and the key
\* is p + "." + r with r non-empty, the match returns true, whatever else
\* is stored.
C1_DeeperKeyMatches ==
  Done => \A q \in Stored : SegmentPattern(q) /\ Deeper(q, key) => out.result

\* C1 witness: such a key matched in a tree whose other pattern splits the
\* edge, after a descent.
C1_Witness ==
  /\ Done /\ out.result
  /\ \E q \in Stored : SegmentPattern(q) /\ Deeper(q, key)
  /\ Cardinality(Stored) >= 2
  /\ Len(out.lens) >= 2
  /\ key \notin Stored

\* C2 (the claim as stated, on the trees of well-formed patterns it names):
\* when p + ".*" is stored (p non-empty, not ending in '.'), the key p
\* matches, also when p is not stored and other patterns split the edge.
C2_BarePrefixMatches ==
  (Done /\ \A q \in Stored : WellFormed(q))
    => \A q \in Stored : SegmentPattern(q) /\ key = Stem(q) => out.result

\* C3: on a tree of well-formed patterns a match means the key is stored,
\* or "*" is stored and the key is non-empty, or a stored p + ".*" has
\* key == p or key starting with p + ".".
C3_NoFalsePositive ==
  (Done /\ out.result /\ \A q \in Stored : WellFormed(q))
    => \/ key \in Stored
       \/ Star \in Stored /\ key /= << >>
       \/ \E q \in Stored : EndsDotStar(q) /\ Covers(q, key)

\* C3 witness: a match on a well-formed tree of two or more patterns that
\* is neither exact nor universal.
C3_Witness ==
  /\ Done /\ out.result
  /\ \A q \in Stored : WellFormed(q)
  /\ Cardinality(Stored) >= 2
  /\ key \notin Stored
  /\ Star \notin Stored

\* C4: a key that is itself stored matches, whatever else is stored.
C4_ExactMatch == (Done /\ key \in Stored) => out.result

\* C4 witness: a stored key found at the end of a path of two edges.
C4_Witness ==
  /\ Done /\ key \in Stored /\ out.result
  /\ out.via = "base"
  /\ Len(out.lens) >= 3

\* C5: when "*" is stored every non-empty key matches, and the result is
\* given before any descent is started.
C5_Universal ==
  (Done /\ Star \in Stored /\ key /= << >>)
    => out.result /\ out.via = "universal" /\ out.lens = << >>

\* C5 witness: "*" stored next to another pattern, a non-empty key that is
\* not stored.
C5_Witness ==
  /\ Done /\ Star \in Stored /\ key /= << >>
  /\ key \notin Stored
  /\ Cardinality(Stored) >= 2
  /\ out.result

\* C6: the empty key matches if and only if the empty key is stored.
C6_EmptyKey == (Done /\ key = << >>) => (out.result <=> << >> \in Stored)

\* C6 witness: the empty key refused although "*" and a ".*" pattern are
\* stored.
C6_Witness ==
  /\ Done /\ key = << >>
  /\ Star \in Stored
  /\ \E q \in Stored : EndsDotStar(q)
  /\ ~out.result

\* C7 (the claim as stated): a match means the key is stored, or "*" is
\* stored and the key is non-empty, or a well-formed stored p + ".*" has
\* key == p or key starting with p + "."; a malformed pattern matches no
\* key but itself.
C7_MalformedNeverMatch ==
  (Done /\ out.result)
    => \/ key \in Stored
       \/ Star \in Stored /\ key /= << >>
       \/ \E q \in Stored : WellFormed(q) /\ EndsDotStar(q) /\ Covers(q, key)

\* C8: the match ends with a boolean and without a read out of range; every
\* descent is given a strictly shorter remainder, so there are at most as
\* many descents as the key has bytes.
C8_Total ==
  Done =>
    /\ out.result \in BOOLEAN
    /\ out.via /= "panic"
    /\ StrictlyDecreasing(out.lens)
    /\ out.lens /= << >> => out.lens[1] = Len(key)
    /\ Len(out.lens) <= Len(key) + 1

\* C8 witness: a key of two or more bytes consumed one byte per descent.
C8_Witness ==
  /\ Done /\ Len(key) >= 2
  /\ Len(out.lens) = Len(key) + 1

\* C9 (the claim as stated, on trees of well-formed patterns): inserting a
\* pattern takes no match away; a key that matched on the tree before the
\* insertion matches on the tree after it.
C9_InsertKeepsMatches ==
  [][(\A q \in root'.leaves : WellFormed(q))
       => \A k \in Strings :
            MatchWithWildcards(root, k).result => MatchWithWildcards(root', k).result]_vars

\* C10: a return through the branch where the edge label starts with the
\* remainder and the remainder does not start with the label is a return of
\* false, the remainder being strictly shorter than the label.
C10_ShortBranchFalse ==
  (Done /\ out.via = "short")
    => ~out.result /\ Len(out.search) < Len(out.label)

\* C10 witness: the branch taken on an edge that leads to a leaf.
C10_Witness ==
  /\ Done /\ out.via = "short"
  /\ (AtNode \o out.label) \in Stored
  /\ Len(out.lens) >= 2

====
